---- MODULE Spec2Model ----
(***************************************************************************)
(* A model of the alldebrid command-line client: run() submits a magnet or *)
(* torrent (or unlocks one direct link), WaitForDownloadLinks polls the    *)
(* service on a ticker until the job lists files or its context ends, and  *)
(* then unlocks every file concurrently behind a WaitGroup.                *)
(*                                                                         *)
(* Time is a discrete clock of 5-second units: the 10 s ticker and the     *)
(* 10 s HTTP client timeout are 2 units each.  Errors are chains of        *)
(* messages, outermost first, as built by fmt.Errorf("...: %w", err); the  *)
(* nil error is the empty chain.                                           *)
(***************************************************************************)
EXTENDS Integers, Sequences, FiniteSets, TLC

\* ------------------------------------------------------------------ bounds
\* Largest -timeout considered, in clock units.
MaxTimeout == 9
\* Largest number of files in one listing of the job.
MaxFiles == 2
\* Deepest nesting of directories in a file tree handed to flattenTree.
MaxDepth == 2
\* Most nodes side by side in the innermost directory of such a tree.
MaxWidth == 2
\* Longest list of links handed to the size filter on its own.
MaxLinks == 3

\* ------------------------------------------------------- program constants
\* time.NewTicker(10 * time.Second), in clock units.
TickInterval == 2
\* req.C().SetTimeout(10 * time.Second), in clock units.
ReqTimeout == 2
\* SizeMB divides by 1048576.
BytesPerMB == 1048576
\* flag default of -ignore-files-smaller-than-mb.
DefaultMinMB == 5

\* The clock never passes this value while a call is running.
MaxTime == MaxTimeout + TickInterval + 1

\* ------------------------------------------------------------------ errors
NilErr == <<>>
Wrap(msg, err) == <<msg>> \o err
\* Mutant: one error for a context that is done, whatever ended it.
CtxError_Opaque(cerr) == IF cerr = "nil" THEN NilErr ELSE << "context done" >>

\* ctx.Err() as an error value.
CtxError(cerr) == IF cerr = "nil" THEN NilErr ELSE <<cerr>>

\* ------------------------------------------------------------------- types
NilLink == [Filename |-> "", URL |-> "", Size |-> 0, DownloadURL |-> ""]
\* float64(l.Size) / 1048576 >= mb, for a whole number of megabytes mb.
SizeMBAtLeast(l, mb) == l.Size >= mb * BytesPerMB

File(n, l, s) == [Name |-> n, Link |-> l, Size |-> s, Entries |-> <<>>]
Dir(n, es) == [Name |-> n, Link |-> "", Size |-> 0, Entries |-> es]
IsFile(tn) == tn.Link # ""
IsDirectory(tn) == Len(tn.Entries) > 0

\* A node of the "files" array as the service sends it: a JSON object with
\* some of the keys n, l, s, e (has), and their values.
JNode(has, n, l, s, e) == [has |-> has, n |-> n, l |-> l, s |-> s, e |-> e]

\* json.Unmarshal into []TorrentNode: a key the object lacks leaves the zero
\* value of its field.  Sizes are whole byte counts, which float64 holds and
\* int64(node.Size) returns exactly.
RECURSIVE Unmarshal(_)
Unmarshal(js) ==
    [i \in 1..Len(js) |->
        [Name |-> IF "n" \in js[i].has THEN js[i].n ELSE "",
         Link |-> IF "l" \in js[i].has THEN js[i].l ELSE "",
         Size |-> IF "s" \in js[i].has THEN js[i].s ELSE 0,
         Entries |-> IF "e" \in js[i].has THEN Unmarshal(js[i].e) ELSE <<>>]]

\* var filePath string; if currentPath == "" { ... } else { ... }
filePath(currentPath, name) ==
    IF currentPath = "" THEN name ELSE currentPath \o "/" \o name

\* Mutant: a directory always adds "/" and its name to a non-empty path.
newPath_AlwaysSlash(currentPath, name) ==
    IF currentPath = "" THEN name ELSE currentPath \o "/" \o name

\* Mutant: a directory hands its own name to its children, without the path above it.
newPath_NameOnly(currentPath, name) == name

\* var newPath string; if currentPath == "" { ... } else if node.Name != "" { ... } else { ... }
newPath(currentPath, name) ==
    IF currentPath = "" THEN name
    ELSE IF name # "" THEN currentPath \o "/" \o name
    ELSE currentPath

RECURSIVE flattenTreeWithPath(_, _)
RECURSIVE flattenEntries(_, _)
\* Mutant: the entries are appended last to first.
flattenEntries_Reversed(entries, path) ==
    IF entries = <<>> THEN <<>>
    ELSE flattenEntries(Tail(entries), path) \o flattenTreeWithPath(Head(entries), path)

\* for _, entry := range entries { files = append(files, flattenTreeWithPath(entry, path)...) }
flattenEntries(entries, path) ==
    IF entries = <<>> THEN <<>>
    ELSE flattenTreeWithPath(Head(entries), path) \o flattenEntries(Tail(entries), path)

\* Mutant: a node with entries is taken for a directory before its link is
\* looked at.
flattenTreeWithPath_DirectoryFirst(node, currentPath) ==
    IF IsDirectory(node) THEN
        flattenEntries(node.Entries, newPath(currentPath, node.Name))
    ELSE IF IsFile(node) THEN
        << [Link |-> node.Link, Path |-> filePath(currentPath, node.Name),
            Name |-> node.Name, Size |-> node.Size] >>
    ELSE <<>>

flattenTreeWithPath(node, currentPath) ==
    IF IsFile(node) THEN
        << [Link |-> node.Link, Path |-> filePath(currentPath, node.Name),
            Name |-> node.Name, Size |-> node.Size] >>
    ELSE IF IsDirectory(node) THEN
        flattenEntries(node.Entries, newPath(currentPath, node.Name))
    ELSE <<>>

flattenTree(nodes) == flattenEntries(nodes, "")

\* --------------------------------------------------- the service's answers
\* One HTTP exchange: net = a response arrived, code = the HTTP status,
\* json = the body parses, status/hasError = the envelope, data = its payload
\* (the zero value of the payload type when the body carries none).
TransportFail(zero) ==
    [net |-> FALSE, code |-> 0, json |-> FALSE, status |-> "", hasError |-> FALSE, data |-> zero]
HttpError(zero) ==
    [net |-> TRUE, code |-> 503, json |-> TRUE, status |-> "error", hasError |-> TRUE, data |-> zero]
NotJson(zero) ==
    [net |-> TRUE, code |-> 200, json |-> FALSE, status |-> "", hasError |-> FALSE, data |-> zero]
EnvelopeError(zero) ==
    [net |-> TRUE, code |-> 200, json |-> TRUE, status |-> "error", hasError |-> TRUE, data |-> zero]
Success(d) ==
    [net |-> TRUE, code |-> 200, json |-> TRUE, status |-> "success", hasError |-> FALSE, data |-> d]
Failures(zero) == {TransportFail(zero), HttpError(zero), NotJson(zero), EnvelopeError(zero)}

ZeroUnlock == [Filename |-> "", Filesize |-> 0, Link |-> ""]
ZeroUpload == [Files |-> <<>>, Magnets |-> <<>>]
ZeroList == [Magnets |-> <<>>]

\* The direct URL the service hands out for a restricted one.
DirectURL(url) == "https://dl/" \o url
UnlockResponses(url, sizes) ==
    Failures(ZeroUnlock) \cup
    { Success([Filename |-> "unlocked", Filesize |-> s, Link |-> DirectURL(url)]) : s \in sizes }

Accepted == { <<>>, << [ID |-> 7] >>, << [ID |-> 7], [ID |-> 8] >> }
MagnetUploadResponses ==
    Failures(ZeroUpload) \cup { Success([Files |-> <<>>, Magnets |-> m]) : m \in Accepted }
TorrentUploadResponses ==
    Failures(ZeroUpload) \cup { Success([Files |-> f, Magnets |-> <<>>]) : f \in Accepted }

FileSize(i) == IF i = 1 THEN BytesPerMB ELSE (i - 1) * DefaultMinMB * BytesPerMB
FileNode(i) == File("f" \o ToString(i), "l" \o ToString(i), FileSize(i))
FlatTree(n) == [i \in 1..n |-> FileNode(i)]
NestedTree(n) == << Dir("movies", FlatTree(n)) >>
Trees == { FlatTree(n) : n \in 0..MaxFiles } \cup { NestedTree(n) : n \in 0..MaxFiles }
ListResponses ==
    Failures(ZeroList) \cup { Success(ZeroList) } \cup
    { Success([Magnets |-> << [Files |-> t] >>]) : t \in Trees }

\* ------------------------------------------------------ the API operations
IsErrorState(res) == res.code > 399

\* The OnAfterResponse hook of NewClient.
OnAfterResponse(res) ==
    IF IsErrorState(res) THEN
        IF ~res.json THEN Wrap("failed to unmarshal error as json", <<"json">>)
        ELSE IF res.hasError THEN <<"api error">>
        ELSE <<"nil *Error">>
    ELSE NilErr

\* Mutant: the request is sent without SetContext(ctx).
Do_NoContext(res, cerr) ==
    IF ~res.net THEN <<"transport error">> ELSE OnAfterResponse(res)

\* c.client.R().SetContext(ctx)...Get/Post: a request under a context whose
\* Err() is cerr gets no response once the context has ended.
Do(res, cerr) ==
    IF cerr # "nil" THEN Wrap("request", CtxError(cerr))
    ELSE IF ~res.net THEN <<"transport error">>
    ELSE OnAfterResponse(res)

UnrestrictURL(res, url, cerr) ==
    LET err == Do(res, cerr) IN
    IF err # NilErr THEN
        [link |-> NilLink, err |-> Wrap("failed to send unrestrict request", err)]
    ELSE IF ~res.json THEN
        [link |-> NilLink, err |-> Wrap("failed to parse unlock response", <<"json">>)]
    ELSE
        [link |-> [Filename |-> res.data.Filename, URL |-> url,
                   Size |-> res.data.Filesize, DownloadURL |-> res.data.Link],
         err |-> NilErr]

\* The *os.File of UploadTorrent: "none" before os.Open, then "open", then
\* "closed"; closes counts the releases of the handle.
NoFile == [state |-> "none", closes |-> 0]
OpenFile == [state |-> "open", closes |-> 0]
\* file.Close() releases an open handle; on a closed one it returns
\* os.ErrClosed and releases nothing.
Close(f) == IF f.state = "open" THEN [state |-> "closed", closes |-> f.closes + 1] ELSE f

\* Mutant: the function has no deferred close.
deferClose_None(f) == f

\* defer func() { if closeErr := file.Close(); closeErr != nil { log.Warn() } }()
deferClose(f) == Close(f)

\* Mutant: the request is posted before the file is opened.
UploadTorrent_OpenLate(readable, res, cerr, bodyClosed) ==
    IF ~readable THEN
        [id |-> 0, err |-> Wrap("failed to open torrent file", <<"open">>),
         sent |-> 1, file |-> NoFile]
    ELSE
        [id |-> 0, err |-> <<"no files uploaded">>, sent |-> 1, file |-> Close(OpenFile)]

\* GetFileContent hands the file itself to the HTTP client as an
\* io.ReadCloser: bodyClosed says whether the client closed it after the
\* upload.  res.UnmarshalJson(&res) decodes into the response object, so
\* result keeps the zero value of APIResponse[UploadResponse].
UploadTorrent(readable, res, cerr, bodyClosed) ==
    IF ~readable THEN
        [id |-> 0, err |-> Wrap("failed to open torrent file", <<"open">>),
         sent |-> 0, file |-> NoFile]
    ELSE
        LET err == Do(res, cerr)
            result == [Data |-> ZeroUpload]
            posted == IF bodyClosed THEN Close(OpenFile) ELSE OpenFile
            out == IF err # NilErr THEN [id |-> 0, err |-> Wrap("failed to upload magnet", err)]
                   ELSE IF ~res.json THEN [id |-> 0, err |-> Wrap("failed to parse response", <<"json">>)]
                   ELSE IF Len(result.Data.Files) = 0 THEN [id |-> 0, err |-> <<"no files uploaded">>]
                   ELSE [id |-> result.Data.Files[1].ID, err |-> NilErr]
        IN  [id |-> out.id, err |-> out.err, sent |-> 1, file |-> deferClose(posted)]

\* Mutant: the id of the last accepted magnet is returned.
UploadMagnet_LastID(res, cerr) ==
    LET err == Do(res, cerr) IN
    IF err # NilErr THEN [id |-> 0, err |-> Wrap("upload failed", err), sent |-> 1]
    ELSE IF ~res.json THEN [id |-> 0, err |-> Wrap("failed to parse response", <<"json">>), sent |-> 1]
    ELSE IF Len(res.data.Magnets) = 0 THEN [id |-> 0, err |-> <<"no magnets uploaded">>, sent |-> 1]
    ELSE [id |-> res.data.Magnets[Len(res.data.Magnets)].ID, err |-> NilErr, sent |-> 1]

\* One Post("/magnet/upload"), whatever its outcome.
UploadMagnet(res, cerr) ==
    LET err == Do(res, cerr) IN
    IF err # NilErr THEN [id |-> 0, err |-> Wrap("upload failed", err), sent |-> 1]
    ELSE IF ~res.json THEN [id |-> 0, err |-> Wrap("failed to parse response", <<"json">>), sent |-> 1]
    ELSE IF Len(res.data.Magnets) = 0 THEN [id |-> 0, err |-> <<"no magnets uploaded">>, sent |-> 1]
    ELSE [id |-> res.data.Magnets[1].ID, err |-> NilErr, sent |-> 1]

\* link := &Link{...} in the loop over the files: a new Link for every file.
\* Link instances are named by numbers.
Alloc(n) == [i \in 1..n |-> i]

\* Mutant: the list request is sent without the context of the call.
GetTorrentLinks_NoContext(res, cerr) ==
    LET err == Do(res, "nil") IN
    IF err # NilErr THEN
        [links |-> <<>>, refs |-> <<>>,
         err |-> Wrap("failed send request to list magnet files", err)]
    ELSE IF ~res.json THEN
        [links |-> <<>>, refs |-> <<>>, err |-> Wrap("failed to parse response", <<"json">>)]
    ELSE IF Len(res.data.Magnets) = 0 THEN [links |-> <<>>, refs |-> <<>>, err |-> NilErr]
    ELSE
        LET files == flattenTree(res.data.Magnets[1].Files) IN
        [links |-> [i \in 1..Len(files) |->
                        [Filename |-> files[i].Name, URL |-> files[i].Link,
                         Size |-> files[i].Size, DownloadURL |-> ""]],
         refs |-> Alloc(Len(files)),
         err |-> NilErr]

GetTorrentLinks(res, cerr) ==
    LET err == Do(res, cerr) IN
    IF err # NilErr THEN
        [links |-> <<>>, refs |-> <<>>,
         err |-> Wrap("failed send request to list magnet files", err)]
    ELSE IF ~res.json THEN
        [links |-> <<>>, refs |-> <<>>, err |-> Wrap("failed to parse response", <<"json">>)]
    ELSE IF Len(res.data.Magnets) = 0 THEN [links |-> <<>>, refs |-> <<>>, err |-> NilErr]
    ELSE
        LET files == flattenTree(res.data.Magnets[1].Files) IN
        [links |-> [i \in 1..Len(files) |->
                        [Filename |-> files[i].Name, URL |-> files[i].Link,
                         Size |-> files[i].Size, DownloadURL |-> ""]],
         refs |-> Alloc(Len(files)),
         err |-> NilErr]

\* Mutant: the download URL of a successful unlock is not copied into the link.
unrestrictLink_NoCopy(res, link, cerr) == link

unrestrictLink(res, link, cerr) ==
    LET r == UnrestrictURL(res, link.URL, cerr) IN
    IF r.err # NilErr THEN link
    ELSE [link EXCEPT !.DownloadURL = r.link.DownloadURL]

\* link.DownloadURL = unrestrictedLink.DownloadURL is reached when UnrestrictURL
\* returned no error: the assignments one call of unrestrictLink makes.
Assignments(res, link, cerr) ==
    IF UnrestrictURL(res, link.URL, cerr).err # NilErr THEN 0 ELSE 1

\* ------------------------------------------------------------------- state
VARIABLES
    args,           \* cliArgs: kind of input, -timeout, -ignore-files-smaller-than-mb, file readable
    pc,             \* where run() is: "start", "wait", "filter", "exit"
    parentErr,      \* Err() of the signal.NotifyContext context of main
    jobID,          \* the id returned by the upload
    runErr,         \* the error run() returns
    printed,        \* the lines PrintLinks wrote
    state,          \* WaitForDownloadLinks: "Idle", "Polling", "Resolving", "Done", "TimedOut", "Cancelled"
    now,            \* clock units since WaitForDownloadLinks made its context
    ctxErr,         \* Err() of the context.WithTimeout context
    tickPending,    \* a tick waits in ticker.C (a channel of capacity 1)
    inQuery,        \* GetTorrentLinks is in flight
    reqStart,       \* when the request(s) in flight were sent
    attempts,       \* the attempts counter of the polling loop
    links,          \* the []*Link of the poll that found files, then of run()
    task,           \* per link, the unlock goroutine: "running" or "done"
    ret,            \* what WaitForDownloadLinks returned: [links, err]
    failedPolls,    \* history: polls that returned an error
    doneIn,         \* history: the state in which the context ended ("none" while it has not)
    doneAt,         \* history: the clock when the context ended
    ticksAfterDone, \* history: ticks taken by the select after the context ended
    okAfterDone,    \* history: a poll succeeded after the context ended
    unlockRes,      \* history: per link, how its unlock ended and the URL the service had for it
    reported,       \* history: the number of file nodes in the listing that ended Polling
    lastCall,       \* history: the last API operation, its response and its result
    uploadSent,     \* history: the upload requests handed to the HTTP client
    torrentFile,    \* the *os.File of UploadTorrent: its state and how often it was released
    pureOp,         \* the function applied on its own: "none" until it has been
    pureIn,         \* its arguments
    pureOut,        \* its result
    procExit,       \* what main logged and the exit code of the process, once run has returned
    refs,           \* the []*Link of the poll that found files: per entry, the Link it points to
    fanOut,         \* history: the links as GetTorrentLinks built them from the flattened tree
    touched,        \* history: per unlock goroutine, the Link instances it read or wrote
    unlockCalls,    \* history: per link, the calls of unrestrictLink made for it
    urlWrites       \* history: per link, the assignments made to its DownloadURL

vars == << args, pc, parentErr, jobID, runErr, printed, state, now, ctxErr,
           tickPending, inQuery, reqStart, attempts, links, task, ret,
           failedPolls, doneIn, doneAt, ticksAfterDone, okAfterDone, unlockRes,
           reported, lastCall, uploadSent, torrentFile, pureOp, pureIn, pureOut,
           procExit, refs, fanOut, touched, unlockCalls, urlWrites >>

runVars == << args, pc, jobID, runErr, printed >>
waitVars == << state, now, ctxErr, tickPending, inQuery, reqStart, attempts, links, task, ret >>
histVars == << failedPolls, doneIn, doneAt, ticksAfterDone, okAfterDone, unlockRes, reported >>
ioVars == << uploadSent, torrentFile >>
pureVars == << pureOp, pureIn, pureOut >>
memVars == << refs, fanOut, touched, unlockCalls, urlWrites >>

\* main has not handled the result of run yet.
NoExit == [code |-> -1, msg |-> ""]
Kinds == {"magnet", "link", "torrent"}
Args == [kind : Kinds, timeout : 0..MaxTimeout, minMB : {0, DefaultMinMB}, readable : BOOLEAN]
InputURL == "https://host/file"
Call(op, res, cerr, err, id, ls) ==
    [op |-> op, res |-> res, cerr |-> cerr, err |-> err, id |-> id, links |-> ls]

Init ==
    /\ args \in Args
    /\ pc = "start"
    /\ parentErr = "nil"
    /\ jobID = 0
    /\ runErr = NilErr
    /\ printed = <<>>
    /\ state = "Idle"
    /\ now = 0
    /\ ctxErr = "nil"
    /\ tickPending = FALSE
    /\ inQuery = FALSE
    /\ reqStart = 0
    /\ attempts = 0
    /\ links = <<>>
    /\ task = <<>>
    /\ ret = [links |-> <<>>, err |-> NilErr]
    /\ failedPolls = 0
    /\ doneIn = "none"
    /\ doneAt = 0
    /\ ticksAfterDone = 0
    /\ okAfterDone = FALSE
    /\ unlockRes = <<>>
    /\ reported = 0
    /\ lastCall = Call("none", TransportFail(ZeroList), "nil", NilErr, 0, <<>>)
    /\ uploadSent = 0
    /\ torrentFile = NoFile
    /\ procExit = NoExit
    /\ refs = <<>>
    /\ fanOut = <<>>
    /\ touched = <<>>
    /\ unlockCalls = <<>>
    /\ urlWrites = <<>>
    /\ pureOp = "none"
    /\ pureIn = <<>>
    /\ pureOut = <<>>

Active == state \in {"Polling", "Resolving"}
Terminal == state \in {"Done", "TimedOut", "Cancelled"}

\* ------------------------------------------------------------ environment
\* SIGINT/SIGTERM: the context of signal.NotifyContext is cancelled, and with
\* it the context derived from it by WaitForDownloadLinks.
\* Mutant: the signal cancels the context of main, but the context that
\* WaitForDownloadLinks derived from it lives on until its own deadline.
Cancel_ParentOnly ==
    /\ procExit = NoExit
    /\ parentErr = "nil"
    /\ parentErr' = "Canceled"
    /\ UNCHANGED << ctxErr, doneIn, doneAt >>
    /\ UNCHANGED << ioVars, pureVars, procExit, memVars, runVars, state, now, tickPending,
                    inQuery, reqStart, attempts,
                    links, task, ret, failedPolls, ticksAfterDone, okAfterDone,
                    unlockRes, reported, lastCall >>

Cancel ==
    /\ procExit = NoExit
    /\ parentErr = "nil"
    /\ parentErr' = "Canceled"
    /\ IF Active /\ ctxErr = "nil"
       THEN /\ ctxErr' = "Canceled"
            /\ doneIn' = state
            /\ doneAt' = now
       ELSE UNCHANGED << ctxErr, doneIn, doneAt >>
    /\ UNCHANGED << ioVars, pureVars, procExit, memVars, runVars, state, now, tickPending,
                    inQuery, reqStart, attempts,
                    links, task, ret, failedPolls, ticksAfterDone, okAfterDone,
                    unlockRes, reported, lastCall >>

\* ------------------------------------------------------------------ run()
\* Mutant: run goes on to wait for the links although the upload failed.
RunUploadMagnet_IgnoreError ==
    /\ pc = "start"
    /\ args.kind = "magnet"
    /\ \E res \in MagnetUploadResponses :
        LET r == UploadMagnet(res, parentErr) IN
        /\ lastCall' = Call("upload-magnet", res, parentErr, r.err, r.id, <<>>)
        /\ jobID' = r.id
        /\ pc' = "wait"
        /\ UNCHANGED runErr
        /\ uploadSent' = uploadSent + r.sent
    /\ UNCHANGED << pureVars, procExit, memVars, torrentFile, args, printed, parentErr,
                    waitVars, histVars >>

RunUploadMagnet ==
    /\ pc = "start"
    /\ args.kind = "magnet"
    /\ \E res \in MagnetUploadResponses :
        LET r == UploadMagnet(res, parentErr) IN
        /\ lastCall' = Call("upload-magnet", res, parentErr, r.err, r.id, <<>>)
        /\ IF r.err # NilErr
           THEN /\ runErr' = Wrap("failed to upload magnet", r.err)
                /\ pc' = "exit"
                /\ UNCHANGED jobID
           ELSE /\ jobID' = r.id
                /\ pc' = "wait"
                /\ UNCHANGED runErr
        /\ uploadSent' = uploadSent + r.sent
    /\ UNCHANGED << pureVars, procExit, memVars, torrentFile, args, printed, parentErr,
                    waitVars, histVars >>

RunUploadTorrent ==
    /\ pc = "start"
    /\ args.kind = "torrent"
    /\ \E res \in TorrentUploadResponses, bodyClosed \in BOOLEAN :
        LET r == UploadTorrent(args.readable, res, parentErr, bodyClosed) IN
        /\ lastCall' = Call("upload-torrent", res, parentErr, r.err, r.id, <<>>)
        /\ IF r.err # NilErr
           THEN /\ runErr' = Wrap("failed to upload torrent", r.err)
                /\ pc' = "exit"
                /\ UNCHANGED jobID
           ELSE /\ jobID' = r.id
                /\ pc' = "wait"
                /\ UNCHANGED runErr
        /\ uploadSent' = uploadSent + r.sent
        /\ torrentFile' = r.file
    /\ UNCHANGED << pureVars, procExit, memVars, args, printed, parentErr, waitVars, histVars >>

\* Mutant: the link of a direct URL is printed as it is, past the size filter.
RunUnrestrict_Unfiltered ==
    /\ pc = "start"
    /\ args.kind = "link"
    /\ \E res \in UnlockResponses(InputURL, {BytesPerMB, 2 * DefaultMinMB * BytesPerMB}) :
        LET r == UnrestrictURL(res, InputURL, parentErr) IN
        /\ lastCall' = Call("unlock", res, parentErr, r.err, 0, << r.link >>)
        /\ pc' = "exit"
        /\ IF r.err # NilErr
           THEN /\ runErr' = Wrap("failed to unrestrict URL", r.err)
                /\ UNCHANGED << links, printed >>
           ELSE /\ links' = << r.link >>
                /\ printed' = IF r.link.DownloadURL # "" THEN << r.link.DownloadURL >>
                              ELSE <<>>
                /\ UNCHANGED runErr
    /\ UNCHANGED << ioVars, pureVars, procExit, memVars, args, jobID, parentErr,
                    state, now, ctxErr, tickPending,
                    inQuery, reqStart, attempts, task, ret, histVars >>

RunUnrestrict ==
    /\ pc = "start"
    /\ args.kind = "link"
    /\ \E res \in UnlockResponses(InputURL, {BytesPerMB, 2 * DefaultMinMB * BytesPerMB}) :
        LET r == UnrestrictURL(res, InputURL, parentErr) IN
        /\ lastCall' = Call("unlock", res, parentErr, r.err, 0, << r.link >>)
        /\ IF r.err # NilErr
           THEN /\ runErr' = Wrap("failed to unrestrict URL", r.err)
                /\ pc' = "exit"
                /\ UNCHANGED links
           ELSE /\ links' = << r.link >>
                /\ pc' = "filter"
                /\ UNCHANGED runErr
    /\ UNCHANGED << ioVars, pureVars, procExit, memVars, args, jobID, printed, parentErr,
                    state, now, ctxErr, tickPending,
                    inQuery, reqStart, attempts, task, ret, histVars >>

\* The call of WaitForDownloadLinks has returned to run().
RunWaitReturned ==
    /\ pc = "wait"
    /\ Terminal
    /\ IF ret.err # NilErr
       THEN /\ runErr' = Wrap("failed to get download links", ret.err)
            /\ pc' = "exit"
            /\ UNCHANGED links
       ELSE /\ links' = ret.links
            /\ pc' = "filter"
            /\ UNCHANGED runErr
    /\ UNCHANGED << ioVars, pureVars, procExit, memVars, args, jobID, printed, parentErr,
                    state, now, ctxErr, tickPending,
                    inQuery, reqStart, attempts, task, ret, histVars, lastCall >>

\* float64(l.Size) / 1048576 > mb, for a whole number of megabytes mb.
SizeMBAbove(l, mb) == l.Size > mb * BytesPerMB

\* filterLargeFiles: a helper of the command that run does not call.
filterLargeFiles(ls, minSizeMB) == SelectSeq(ls, LAMBDA l : SizeMBAbove(l, minSizeMB))

\* Mutant: the links are always filtered, and with the exclusive comparison.
FilterLinks_Unguarded(ls, minMB) == SelectSeq(ls, LAMBDA l : SizeMBAbove(l, minMB))

\* lo.Filter(links, SizeMB() >= IgnoreFilesSmallerThanMB) when the threshold is positive.
FilterLinks(ls, minMB) ==
    IF minMB > 0 THEN SelectSeq(ls, LAMBDA l : SizeMBAtLeast(l, minMB)) ELSE ls

\* PrintLinks: one line per link with a download URL.
PrintLinks(ls) ==
    LET shown == SelectSeq(ls, LAMBDA l : l.DownloadURL # "")
    IN  [i \in 1..Len(shown) |-> shown[i].DownloadURL]

RunFinish ==
    /\ pc = "filter"
    /\ links' = FilterLinks(links, args.minMB)
    /\ printed' = PrintLinks(links')
    /\ pc' = "exit"
    /\ UNCHANGED << ioVars, pureVars, procExit, memVars, args, jobID, runErr, parentErr, state,
                    now, ctxErr, tickPending,
                    inQuery, reqStart, attempts, task, ret, histVars, lastCall >>

\* if err := run(ctx, args); err != nil { if ctx.Err() != nil { switch ... } }
\* with ctx the context of signal.NotifyContext; log.Fatal exits with code 1.
ExitOf(err, perr) ==
    IF err = NilErr THEN [code |-> 0, msg |-> ""]
    ELSE IF perr = "Canceled" THEN [code |-> 1, msg |-> "operation cancelled by user"]
    ELSE IF perr = "DeadlineExceeded" THEN [code |-> 1, msg |-> "operation timed out"]
    ELSE [code |-> 1, msg |-> "operation failed"]

\* run has returned to main.
MainExit ==
    /\ pc = "exit"
    /\ procExit = NoExit
    /\ procExit' = ExitOf(runErr, parentErr)
    /\ UNCHANGED << ioVars, pureVars, memVars, runVars, parentErr, waitVars, histVars, lastCall >>

\* --------------------------------------------------- WaitForDownloadLinks
\* Mutant: the loop polls once at entry, before the first tick of the ticker.
WaitStart_TickAtOnce ==
    /\ pc = "wait"
    /\ state = "Idle"
    /\ state' = "Polling"
    /\ now' = 0
    /\ tickPending' = TRUE
    /\ attempts' = 0
    /\ ctxErr' = IF parentErr # "nil" THEN "Canceled"
                 ELSE IF args.timeout = 0 THEN "DeadlineExceeded"
                 ELSE "nil"
    /\ doneIn' = IF ctxErr' # "nil" THEN "entry" ELSE "none"
    /\ doneAt' = 0
    /\ UNCHANGED << ioVars, pureVars, procExit, memVars, runVars, parentErr, inQuery, reqStart,
                    links, task, ret,
                    failedPolls, ticksAfterDone, okAfterDone, unlockRes, reported, lastCall >>

\* ctx, cancel := context.WithTimeout(ctx, timeout); ticker := time.NewTicker(10s)
WaitStart ==
    /\ pc = "wait"
    /\ state = "Idle"
    /\ state' = "Polling"
    /\ now' = 0
    /\ tickPending' = FALSE
    /\ attempts' = 0
    /\ ctxErr' = IF parentErr # "nil" THEN "Canceled"
                 ELSE IF args.timeout = 0 THEN "DeadlineExceeded"
                 ELSE "nil"
    /\ doneIn' = IF ctxErr' # "nil" THEN "entry" ELSE "none"
    /\ doneAt' = 0
    /\ UNCHANGED << ioVars, pureVars, procExit, memVars, runVars, parentErr, inQuery, reqStart,
                    links, task, ret,
                    failedPolls, ticksAfterDone, okAfterDone, unlockRes, reported, lastCall >>

\* Mutant: the select has no case for ctx.Done().
DoneReady_Never == FALSE

\* case <-ctx.Done() of the select is ready.
DoneReady == ctxErr # "nil"
\* case <-ticker.C of the select is ready.
TickReady == tickPending
\* The goroutine of WaitForDownloadLinks blocks in the select.
InSelect == state = "Polling" /\ ~inQuery
\* wg.Wait() blocks while a goroutine has not called wg.Done().
wgCount == Cardinality({ i \in 1..Len(task) : task[i] = "running" })
\* Mutant: the goroutines never call wg.Done(), the wait never ends.
WaitGroupZero_Never == FALSE
\* Mutant: the wait ends as soon as one goroutine is done.
WaitGroupZero_Any == \E i \in 1..Len(task) : task[i] = "done"
WaitGroupZero == wgCount = 0

\* A request in flight ends at once when its context ends, and at the latest
\* when the client timeout runs out.
RequestDue == ctxErr # "nil" \/ now - reqStart >= ReqTimeout

\* Something runs before the clock moves again.
Urgent ==
    \/ InSelect /\ (DoneReady \/ TickReady)
    \/ inQuery /\ RequestDue
    \/ state = "Resolving" /\ (WaitGroupZero \/ RequestDue)

\* One clock unit passes: the ticker fires every TickInterval, the timer of
\* context.WithTimeout fires when the timeout has run out.
Advance ==
    /\ Active
    /\ ~Urgent
    /\ now < MaxTime
    /\ now' = now + 1
    /\ tickPending' = (tickPending \/ (now + 1) % TickInterval = 0)
    /\ IF ctxErr = "nil" /\ now + 1 >= args.timeout
       THEN /\ ctxErr' = "DeadlineExceeded"
            /\ doneIn' = state
            /\ doneAt' = now + 1
       ELSE UNCHANGED << ctxErr, doneIn, doneAt >>
    /\ UNCHANGED << ioVars, pureVars, procExit, memVars, runVars, parentErr, state, inQuery,
                    reqStart, attempts, links, task,
                    ret, failedPolls, ticksAfterDone, okAfterDone, unlockRes, reported,
                    lastCall >>

\* case <-ctx.Done(): return nil, ctx.Err()
DoneBranch ==
    /\ InSelect
    /\ DoneReady
    /\ state' = IF ctxErr = "DeadlineExceeded" THEN "TimedOut" ELSE "Cancelled"
    /\ ret' = [links |-> <<>>, err |-> CtxError(ctxErr)]
    /\ UNCHANGED << ioVars, pureVars, procExit, memVars, runVars, parentErr, now, ctxErr,
                    tickPending, inQuery, reqStart,
                    attempts, links, task, histVars, lastCall >>

\* case <-ticker.C: attempts++; the request of GetTorrentLinks is sent
TickBranch ==
    /\ InSelect
    /\ TickReady
    /\ tickPending' = FALSE
    /\ attempts' = attempts + 1
    /\ inQuery' = TRUE
    /\ reqStart' = now
    /\ ticksAfterDone' = IF ctxErr # "nil" THEN ticksAfterDone + 1 ELSE ticksAfterDone
    /\ UNCHANGED << ioVars, pureVars, procExit, memVars, runVars, parentErr, state, now,
                    ctxErr, links, task, ret,
                    failedPolls, doneIn, doneAt, okAfterDone, unlockRes, reported, lastCall >>

\* Mutant: an empty listing ends the polling too.
HasLinks_OrEmpty(ls) == Len(ls) >= 0

\* if len(links) > 0
HasLinks(ls) == Len(ls) > 0

\* The file nodes (nodes with a link) of a listing, counted without flattening.
RECURSIVE FileCount(_)
FileCount(nodes) ==
    IF nodes = <<>> THEN 0
    ELSE (IF Head(nodes).Link # "" THEN 1 ELSE FileCount(Head(nodes).Entries))
         + FileCount(Tail(nodes))

\* Mutant: the polling loop returns the error of a failed query.
OnQueryError_Return(r) ==
    /\ failedPolls' = failedPolls + 1
    /\ state' = "Failed"
    /\ ret' = [links |-> <<>>, err |-> r.err]
    /\ UNCHANGED << links, task, reqStart, unlockRes, reported, memVars >>

\* The file nodes the job's first magnet lists in a response.
ReportedFiles(res) ==
    IF Len(res.data.Magnets) = 0 THEN 0 ELSE FileCount(res.data.Magnets[1].Files)

\* if err != nil { log.Warn(); continue }
OnQueryError(r) ==
    /\ failedPolls' = failedPolls + 1
    /\ UNCHANGED << state, ret, links, task, reqStart, unlockRes, reported, memVars >>

\* if len(links) > 0 { for _, link := range links { wg.Add(1); go ... } ... }
OnLinks(res, r) ==
    /\ state' = "Resolving"
    /\ links' = r.links
    /\ task' = [i \in 1..Len(r.links) |-> "running"]
    /\ unlockRes' = [i \in 1..Len(r.links) |-> [how |-> "pending", wouldBe |-> ""]]
    /\ reported' = ReportedFiles(res)
    /\ reqStart' = now
    /\ refs' = r.refs
    /\ fanOut' = r.links
    /\ touched' = [i \in 1..Len(r.links) |-> {}]
    /\ unlockCalls' = [i \in 1..Len(r.links) |-> 0]
    /\ urlWrites' = [i \in 1..Len(r.links) |-> 0]
    /\ UNCHANGED << ret, failedPolls >>

\* Mutant: a listing without files ends the call with an empty list.
OnNoLinks_ReturnEmpty ==
    /\ state' = "Done"
    /\ ret' = [links |-> <<>>, err |-> NilErr]
    /\ UNCHANGED << links, task, reqStart, unlockRes, reported, failedPolls, memVars >>

\* "No links ready yet, waiting for next check"
OnNoLinks ==
    UNCHANGED << state, ret, links, task, reqStart, unlockRes, reported, failedPolls, memVars >>

\* GetTorrentLinks returns to the polling loop.
QueryReturn ==
    /\ inQuery
    /\ \E res \in ListResponses :
        LET r == GetTorrentLinks(res, ctxErr) IN
        /\ lastCall' = Call("list", res, ctxErr, r.err, 0, r.links)
        /\ inQuery' = FALSE
        /\ okAfterDone' = (okAfterDone \/ (ctxErr # "nil" /\ r.err = NilErr))
        /\ IF r.err # NilErr THEN OnQueryError(r)
           ELSE IF HasLinks(r.links) THEN OnLinks(res, r)
           ELSE OnNoLinks
    /\ UNCHANGED << ioVars, pureVars, procExit, runVars, parentErr, now, ctxErr, tickPending,
                    attempts, doneIn, doneAt, ticksAfterDone >>

\* How an unlock ended, for the history.
Outcome(res, cerr) ==
    IF cerr # "nil" THEN "aborted"
    ELSE IF res.status = "success" /\ res.net /\ res.json THEN "unlocked"
    ELSE IF res.status = "error" /\ res.code = 200 THEN "envelope-error"
    ELSE "failed"

\* Mutant: the goroutines use the loop variable, which holds the last link
\* by the time they run.
Handed_LoopVariable(i) == refs[Len(refs)]

\* go func(l *Link) { ... }(link): the Link goroutine i is handed as l.
Handed(i) == refs[i]

\* Mutant: a goroutine whose unlock failed tries again.
AfterUnlock_RetryFailed(how) == IF how = "unlocked" THEN "done" ELSE "running"

\* defer wg.Done(): the goroutine ends after its one call of unrestrictLink.
AfterUnlock(how) == "done"

\* go func(l *Link) { defer wg.Done(); c.unrestrictLink(ctx, l) }(link)
UnlockFinish(i) ==
    /\ state = "Resolving"
    /\ task[i] = "running"
    /\ \E res \in UnlockResponses(links[i].URL, {links[i].Size}) :
        /\ links' = [k \in 1..Len(links) |->
                        IF refs[k] = Handed(i) THEN unrestrictLink(res, links[k], ctxErr)
                        ELSE links[k]]
        /\ unlockRes' = [unlockRes EXCEPT ![i] =
                            [how |-> Outcome(res, ctxErr),
                             wouldBe |-> unrestrictLink(res, links[i], "nil").DownloadURL]]
        /\ lastCall' = Call("unlock", res, ctxErr,
                            UnrestrictURL(res, links[i].URL, ctxErr).err, 0,
                            << UnrestrictURL(res, links[i].URL, ctxErr).link >>)
        /\ task' = [task EXCEPT ![i] = AfterUnlock(Outcome(res, ctxErr))]
        /\ urlWrites' = [k \in 1..Len(links) |->
                            IF refs[k] = Handed(i)
                            THEN urlWrites[k] + Assignments(res, links[k], ctxErr)
                            ELSE urlWrites[k]]
    /\ touched' = [touched EXCEPT ![i] = @ \cup { Handed(i) }]
    /\ unlockCalls' = [unlockCalls EXCEPT ![i] = @ + 1]
    /\ UNCHANGED << ioVars, pureVars, procExit, refs, fanOut, runVars, parentErr, state, now,
                    ctxErr, tickPending, inQuery, reqStart, attempts, ret, failedPolls, doneIn,
                    doneAt, ticksAfterDone, okAfterDone, reported >>

\* Mutant: a failed unlock fails the whole call.
WaitReturn_FailFast ==
    /\ state = "Resolving"
    /\ WaitGroupZero
    /\ state' = "Done"
    /\ ret' = IF \E i \in 1..Len(links) : links[i].DownloadURL = ""
              THEN [links |-> <<>>, err |-> <<"failed to unrestrict link">>]
              ELSE [links |-> links, err |-> NilErr]
    /\ UNCHANGED << ioVars, pureVars, procExit, memVars, runVars, parentErr, now, ctxErr,
                    tickPending, inQuery, reqStart,
                    attempts, links, task, histVars, lastCall >>

\* Mutant: the call reports the context's error when the context ended during the fan-out.
WaitReturn_CtxErr ==
    /\ state = "Resolving"
    /\ WaitGroupZero
    /\ state' = "Done"
    /\ ret' = IF ctxErr # "nil"
              THEN [links |-> <<>>, err |-> CtxError(ctxErr)]
              ELSE [links |-> links, err |-> NilErr]
    /\ UNCHANGED << ioVars, pureVars, procExit, memVars, runVars, parentErr, now, ctxErr,
                    tickPending, inQuery, reqStart,
                    attempts, links, task, histVars, lastCall >>

\* Mutant: the links are collected as their unlocks complete, so that the one
\* unlocked last comes last.
WaitReturn_CompletionOrder ==
    /\ state = "Resolving"
    /\ WaitGroupZero
    /\ state' = "Done"
    /\ ret' = [links |-> SelectSeq(links, LAMBDA l : l.URL # lastCall.links[1].URL)
                            \o SelectSeq(links, LAMBDA l : l.URL = lastCall.links[1].URL),
               err |-> NilErr]
    /\ UNCHANGED << ioVars, pureVars, procExit, memVars, runVars, parentErr, now, ctxErr,
                    tickPending, inQuery, reqStart,
                    attempts, links, task, histVars, lastCall >>

\* wg.Wait() returns; return links, nil
WaitReturn ==
    /\ state = "Resolving"
    /\ WaitGroupZero
    /\ state' = "Done"
    /\ ret' = [links |-> links, err |-> NilErr]
    /\ UNCHANGED << ioVars, pureVars, procExit, memVars, runVars, parentErr, now, ctxErr,
                    tickPending, inQuery, reqStart,
                    attempts, links, task, histVars, lastCall >>

Next ==
    \/ Cancel
    \/ RunUploadMagnet
    \/ RunUploadTorrent
    \/ RunUnrestrict
    \/ WaitStart
    \/ Advance
    \/ DoneBranch
    \/ TickBranch
    \/ QueryReturn
    \/ \E i \in 1..Len(task) : UnlockFinish(i)
    \/ WaitReturn
    \/ RunWaitReturned
    \/ RunFinish
    \/ MainExit

Spec == Init /\ [][Next]_vars

\* The Go scheduler runs every goroutine that can run, the runtime delivers
\* timer and ticker events, and every request ends, at the latest by the
\* timeout of the HTTP client.
Fairness ==
    /\ WF_vars(Advance)
    /\ WF_vars(DoneBranch)
    /\ WF_vars(TickBranch)
    /\ WF_vars(QueryReturn)
    /\ WF_vars(\E i \in 1..Len(task) : UnlockFinish(i))
    /\ WF_vars(WaitReturn)

\* The call does not read the size threshold, and a file that cannot be read
\* never gets as far as the call: one value of each is enough here.
FairInit ==
    /\ Init
    /\ args.minMB = DefaultMinMB
    /\ args.readable

FairSpec == FairInit /\ [][Next]_vars /\ Fairness

\* ------------------------------------------- flattenTree on its own
\* run has not been started: every variable of the program keeps its first value.
NotRunning ==
    /\ args = [kind |-> "link", timeout |-> 0, minMB |-> 0, readable |-> FALSE]
    /\ pc = "start"
    /\ parentErr = "nil"
    /\ jobID = 0
    /\ runErr = NilErr
    /\ printed = <<>>
    /\ state = "Idle"
    /\ now = 0
    /\ ctxErr = "nil"
    /\ tickPending = FALSE
    /\ inQuery = FALSE
    /\ reqStart = 0
    /\ attempts = 0
    /\ links = <<>>
    /\ task = <<>>
    /\ ret = [links |-> <<>>, err |-> NilErr]
    /\ failedPolls = 0
    /\ doneIn = "none"
    /\ doneAt = 0
    /\ ticksAfterDone = 0
    /\ okAfterDone = FALSE
    /\ unlockRes = <<>>
    /\ reported = 0
    /\ lastCall = Call("none", TransportFail(ZeroList), "nil", NilErr, 0, <<>>)
    /\ uploadSent = 0
    /\ torrentFile = NoFile
    /\ procExit = NoExit
    /\ refs = <<>>
    /\ fanOut = <<>>
    /\ touched = <<>>
    /\ unlockCalls = <<>>
    /\ urlWrites = <<>>

progVars == << args, pc, parentErr, jobID, runErr, printed, waitVars, histVars, lastCall, ioVars,
              procExit, memVars >>

\* The nodes the service can send: files, directories, and objects that are neither.
JFile(n, l, s) == JNode({"n", "l", "s"}, n, l, s, <<>>)
JDir(n, es) == JNode({"n", "e"}, n, "", 0, es)
Leaves ==
    { JFile("a.mkv", "l1", BytesPerMB),                    \* a file
      JFile("", "l2", 7),                                  \* a file with an empty name
      JNode({"n"}, "m", "", 0, <<>>),                      \* neither link nor entries
      JNode({"n", "l"}, "q", "l3", 0, <<>>),               \* a link but no size
      JNode({"n", "l", "s", "e"}, "k", "l4", 9,
            << JFile("in-k", "l5", 3) >>),                 \* a link and entries
      JDir("d", <<>>) }                                    \* a directory without entries
DirNames == { "", "movies", "a" }
SeqsUpTo(S, n) == UNION { [1..k -> S] : k \in 0..n }
TrailFile == JFile("b.mkv", "lb", 2)
CousinFile == JFile("f", "lf", 4)

\* Directories nested as deep as dirs is long, the innermost holding inner,
\* each followed by trail in its parent.
RECURSIVE Nest(_, _, _)
Nest(dirs, inner, trail) ==
    IF dirs = <<>> THEN inner
    ELSE << JDir(Head(dirs), Nest(Tail(dirs), inner, trail) \o trail) >>

Forests ==
    { pre \o Nest(dirs, inner, trail) \o post :
        pre \in { <<>>, << TrailFile >> },
        dirs \in SeqsUpTo(DirNames, MaxDepth),
        inner \in SeqsUpTo(Leaves, MaxWidth),
        trail \in { <<>>, << TrailFile >> },
        post \in { <<>>, << JDir("c", << CousinFile >>) >>,
                   << JDir("a", << JDir("", << CousinFile >>) >>) >> } }
Paths == { "", "top" }

FlattenInit ==
    /\ NotRunning
    /\ pureOp = "none"
    /\ pureIn \in [nodes : Forests, currentPath : Paths]
    /\ pureOut = <<>>

\* flattenTree(result.Data.Magnets[0].Files)
FlattenTreeCall ==
    /\ pureOp = "none"
    /\ pureOp' = "flattenTree"
    /\ pureOut' = flattenTree(Unmarshal(pureIn.nodes))
    /\ UNCHANGED << pureIn, progVars >>

\* flattenTreeWithPath(node, currentPath) for the first node
FlattenWithPathCall ==
    /\ pureOp = "none"
    /\ pureIn.nodes # <<>>
    /\ pureOp' = "flattenTreeWithPath"
    /\ pureOut' = flattenTreeWithPath(Unmarshal(pureIn.nodes)[1], pureIn.currentPath)
    /\ UNCHANGED << pureIn, progVars >>

FlattenNext == FlattenTreeCall \/ FlattenWithPathCall

FlattenSpec == FlattenInit /\ [][FlattenNext]_vars

\* ------------------------------------------- the size filter on its own
\* Sizes around the thresholds, in bytes.
Sizes ==
    { 0, BytesPerMB, DefaultMinMB * BytesPerMB - 1, DefaultMinMB * BytesPerMB,
      DefaultMinMB * BytesPerMB + 1, 2 * DefaultMinMB * BytesPerMB }
\* -ignore-files-smaller-than-mb, in whole megabytes.
MinMBs == { -1, 0, 1, DefaultMinMB, 2 * DefaultMinMB }
SizedLink(size) ==
    [Filename |-> "f" \o ToString(size), URL |-> InputURL, Size |-> size,
     DownloadURL |-> DirectURL(InputURL)]
LinkLists == { [i \in 1..Len(ss) |-> SizedLink(ss[i])] : ss \in SeqsUpTo(Sizes, MaxLinks) }

FilterInit ==
    /\ NotRunning
    /\ pureOp = "none"
    /\ pureIn \in [links : LinkLists, minMB : MinMBs]
    /\ pureOut = <<>>

\* if args.IgnoreFilesSmallerThanMB > 0 { links = lo.Filter(...) }
FilterCall ==
    /\ pureOp = "none"
    /\ pureOp' = "filter"
    /\ pureOut' = FilterLinks(pureIn.links, pureIn.minMB)
    /\ UNCHANGED << pureIn, progVars >>

\* filterLargeFiles(links, minSizeMB)
FilterLargeFilesCall ==
    /\ pureOp = "none"
    /\ pureOp' = "filterLargeFiles"
    /\ pureOut' = filterLargeFiles(pureIn.links, pureIn.minMB)
    /\ UNCHANGED << pureIn, progVars >>

FilterNext == FilterCall \/ FilterLargeFilesCall

FilterSpec == FilterInit /\ [][FilterNext]_vars

\* ------------------------------------------------------------ the printers
\* url.QueryEscape: the escaped form of a URL, told apart from the URL itself.
QueryEscape(u) == "escaped(" \o u \o ")"

\* fmt.Sprintf("%.1f", link.SizeMB()): the size in tenths of a megabyte, rounded.
SizeMBTenths(l) == (l.Size * 10 + BytesPerMB \div 2) \div BytesPerMB

\* PrintLinksAsHTML: the style and the table are always printed, with one row
\* per link that has a download URL.
PrintLinksAsHTML(ls) ==
    LET shown == SelectSeq(ls, LAMBDA l : l.DownloadURL # "")
    IN  [format |-> "html",
         rows |-> [i \in 1..Len(shown) |->
                      [href |-> shown[i].DownloadURL,
                       text |-> shown[i].Filename,
                       sizeMB |-> SizeMBTenths(shown[i]),
                       alfred |-> "alfred://runtrigger/piracy/direct_link/?argument="
                                      \o QueryEscape(shown[i].DownloadURL)]]]

\* Mutant: output is declared with var, and a nil slice is marshalled as null.
PrintLinksAsJSON_NilSlice(ls) ==
    LET shown == SelectSeq(ls, LAMBDA l : l.DownloadURL # "")
    IN  IF shown = <<>> THEN [format |-> "json", value |-> "null", items |-> <<>>]
        ELSE [format |-> "json", value |-> "array",
              items |-> [i \in 1..Len(shown) |->
                           [filename |-> shown[i].Filename,
                            download_url |-> shown[i].DownloadURL,
                            size_bytes |-> shown[i].Size,
                            size_mb |-> << shown[i].Size, BytesPerMB >>]]]

\* PrintLinksAsJSON: output := make([]LinkOutput, 0, len(links)) is marshalled
\* as an array, also when it is empty; size_mb is the quotient of the pair.
PrintLinksAsJSON(ls) ==
    LET shown == SelectSeq(ls, LAMBDA l : l.DownloadURL # "")
    IN  [format |-> "json", value |-> "array",
         items |-> [i \in 1..Len(shown) |->
                      [filename |-> shown[i].Filename,
                       download_url |-> shown[i].DownloadURL,
                       size_bytes |-> shown[i].Size,
                       size_mb |-> << shown[i].Size, BytesPerMB >>]]]

\* printLinksFn of run: -html before -json, else the plain printer.
printLinksFn(html, json, ls) ==
    IF html THEN PrintLinksAsHTML(ls)
    ELSE IF json THEN PrintLinksAsJSON(ls)
    ELSE [format |-> "plain", lines |-> PrintLinks(ls)]

\* The end of run: the size filter, the chosen printer, return nil.
RunOutput(ls, minMB, html, json) ==
    [out |-> printLinksFn(html, json, FilterLinks(ls, minMB)), err |-> NilErr]

\* The links that reach the end of run: small or large, unlocked or not.
OutSizes == { BytesPerMB, 2 * DefaultMinMB * BytesPerMB }
OutLink(size, url, ok) ==
    [Filename |-> "f-" \o url, URL |-> url, Size |-> size,
     DownloadURL |-> IF ok THEN DirectURL(url) ELSE ""]
OutLinks == { OutLink(sz, u, ok) : sz \in OutSizes, u \in {"l1", "l2"}, ok \in BOOLEAN }
OutLists == SeqsUpTo(OutLinks, MaxLinks)
\* Validate rejects -html together with -json.
Flags == { f \in [html : BOOLEAN, json : BOOLEAN] : ~(f.html /\ f.json) }

PrintInit ==
    /\ NotRunning
    /\ pureOp = "none"
    /\ pureIn \in [links : OutLists, minMB : {0, DefaultMinMB}, flags : Flags]
    /\ pureOut = <<>>

PrintLinksCall ==
    /\ pureOp = "none"
    /\ pureOp' = "plain"
    /\ pureOut' = [format |-> "plain", lines |-> PrintLinks(pureIn.links)]
    /\ UNCHANGED << pureIn, progVars >>

PrintLinksAsHTMLCall ==
    /\ pureOp = "none"
    /\ pureOp' = "html"
    /\ pureOut' = PrintLinksAsHTML(pureIn.links)
    /\ UNCHANGED << pureIn, progVars >>

PrintLinksAsJSONCall ==
    /\ pureOp = "none"
    /\ pureOp' = "json"
    /\ pureOut' = PrintLinksAsJSON(pureIn.links)
    /\ UNCHANGED << pureIn, progVars >>

RunOutputCall ==
    /\ pureOp = "none"
    /\ pureOp' = "run"
    /\ pureOut' = RunOutput(pureIn.links, pureIn.minMB, pureIn.flags.html, pureIn.flags.json)
    /\ UNCHANGED << pureIn, progVars >>

PrintNext == PrintLinksCall \/ PrintLinksAsHTMLCall \/ PrintLinksAsJSONCall \/ RunOutputCall

PrintSpec == PrintInit /\ [][PrintNext]_vars

\* ------------------------------------------------------------------ claims
DeadlineErr == << "DeadlineExceeded" >>
CancelErr == << "Canceled" >>
\* The list WaitForDownloadLinks works on, and hands back once it is Done.
WaitLinks == IF state = "Done" THEN ret.links ELSE links
Unlocks == 1..Len(unlockRes)

\* C1: partial-failure tolerance.  From the poll that found N >= 1 files on,
\* the list keeps exactly those N entries; an entry whose unlock succeeded
\* carries the URL the unlocker reported, every other entry (failed, or not
\* finished yet) has an empty download URL, so a failure never touches a
\* sibling; and the call ends with all N entries and no error.
C1_PartialFailure ==
    state \in {"Resolving", "Done"} =>
        /\ reported >= 1
        /\ Len(WaitLinks) = reported
        /\ Len(unlockRes) = reported
        /\ \A i \in Unlocks :
              WaitLinks[i].DownloadURL =
                  IF unlockRes[i].how = "unlocked" THEN DirectURL(WaitLinks[i].URL) ELSE ""
        /\ state = "Done" => ret.err = NilErr

C1_Witness ==
    /\ state = "Done"
    /\ Len(ret.links) = 2
    /\ unlockRes[1].how = "failed"
    /\ unlockRes[2].how = "unlocked"
    /\ ret.links[1].DownloadURL = ""
    /\ ret.links[2].DownloadURL # ""
    /\ ret.err = NilErr

\* C2: a failed list-job-files query never ends the call and is never its
\* error: the step that handles the failure leaves the call in Polling with
\* nothing returned, while the context lives the call has not ended in an
\* error however many queries failed, the next tick sends the query again,
\* and the only errors ever returned are the deadline and the cancellation.
C2_QueryFailureContinues ==
    /\ [][(inQuery /\ failedPolls' # failedPolls) =>
            (state' = "Polling" /\ ~inQuery' /\ ret' = ret)]_vars
    /\ []((failedPolls > 0 /\ ctxErr = "nil") => state \in {"Polling", "Resolving", "Done"})
    /\ []((failedPolls > 0 /\ InSelect /\ tickPending) => ENABLED TickBranch)
    /\ [](ret.err \in {NilErr, DeadlineErr, CancelErr})

C2_Witness ==
    /\ failedPolls >= 2
    /\ attempts = failedPolls + 1
    /\ state = "Polling"
    /\ inQuery
    /\ ctxErr = "nil"

\* C3: when the deadline elapses while the call is still in Polling (no poll
\* has returned a file), the call goes nowhere but to TimedOut, and returns
\* DeadlineExceeded with no list; no error is ever returned with a list.
C3_DeadlineInPolling ==
    /\ (ctxErr = "DeadlineExceeded" /\ doneIn \in {"entry", "Polling"}) =>
          /\ state \in {"Polling", "TimedOut"}
          /\ state = "TimedOut" => (ret.err = DeadlineErr /\ ret.links = <<>>)
    /\ ret.err # NilErr => ret.links = <<>>

C3_Witness ==
    /\ state = "TimedOut"
    /\ doneIn = "Polling"
    /\ attempts >= 1
    /\ ret.err = DeadlineErr
    /\ ret.links = <<>>
    /\ parentErr = "nil"

\* C4: when the parent context is cancelled while the call is in Polling, the
\* call returns before more than one poll interval has passed and after at
\* most one more tick was taken, it ends in Cancelled with the Cancelled error
\* and no list, and no list-job-files query succeeds after the cancellation.
C4_CancelInPolling ==
    (ctxErr = "Canceled" /\ doneIn = "Polling") =>
        /\ state \in {"Polling", "Cancelled"}
        /\ now - doneAt <= TickInterval
        /\ ticksAfterDone <= 1
        /\ ~okAfterDone
        /\ state = "Polling" => ENABLED (DoneBranch \/ QueryReturn)
        /\ state = "Cancelled" => (ret.err = CancelErr /\ ret.links = <<>>)

C4_Witness ==
    /\ state = "Cancelled"
    /\ doneIn = "Polling"
    /\ ticksAfterDone = 1
    /\ failedPolls >= 1
    /\ ret.err = CancelErr

C6_ForkJoin ==
    /\ state = "Done" => (Len(task) >= 1 /\ \A i \in 1..Len(task) : task[i] = "done")
    /\ (state = "Resolving" /\ \E i \in 1..Len(task) : task[i] = "running") =>
          ~ENABLED WaitReturn

C6_Witness ==
    /\ state = "Done"
    /\ Len(task) = 2
    /\ unlockRes[1].how = "unlocked"
    /\ unlockRes[2].how = "failed"
    /\ now > reqStart

\* C7: when the first k polls report no file, poll k+1 reports n >= 1 files
\* before the deadline and every unlock succeeds, the call is Done with exactly
\* n links, each with a download URL, and no error.
C7_ZeroThenFiles ==
    (/\ Terminal
     /\ failedPolls = 0
     /\ reported >= 1
     /\ \A i \in Unlocks : unlockRes[i].how = "unlocked") =>
        /\ state = "Done"
        /\ ret.err = NilErr
        /\ Len(ret.links) = reported
        /\ \A i \in 1..Len(ret.links) : ret.links[i].DownloadURL # ""

C7_Witness ==
    /\ state = "Done"
    /\ attempts = 4
    /\ failedPolls = 0
    /\ reported = 2
    /\ Len(ret.links) = 2
    /\ \A i \in Unlocks : unlockRes[i].how = "unlocked"
    /\ \A i \in 1..Len(ret.links) : ret.links[i].DownloadURL # ""

\* The moves of the state machine of WaitForDownloadLinks (Idle: not called yet).
C8_Transitions ==
    { <<"Idle", "Polling">>, <<"Polling", "Resolving">>, <<"Resolving", "Done">>,
      <<"Polling", "TimedOut">>, <<"Polling", "Cancelled">> }

\* C8: outcome exclusivity.  A finished call returned either a non-empty list
\* and no error (Done) or no list and the deadline/cancellation error
\* (TimedOut/Cancelled), and the state only ever moves Polling -> Resolving ->
\* Done or Polling -> TimedOut/Cancelled.
C8_Exclusive ==
    /\ [](Terminal =>
            \/ state = "Done" /\ ret.links # <<>> /\ ret.err = NilErr
            \/ state = "TimedOut" /\ ret.links = <<>> /\ ret.err = DeadlineErr
            \/ state = "Cancelled" /\ ret.links = <<>> /\ ret.err = CancelErr)
    /\ [](~Terminal => (ret.links = <<>> /\ ret.err = NilErr))
    /\ [][state' # state => <<state, state'>> \in C8_Transitions]_vars

C8_Witness ==
    /\ state = "Done"
    /\ ctxErr = "Canceled"
    /\ ret.links # <<>>
    /\ ret.err = NilErr
    /\ \A i \in Unlocks : ret.links[i].DownloadURL = ""

\* C9, as stated: every API operation whose response envelope has status
\* "error" with a populated error reports a failure, whatever the HTTP status.
C9_Original ==
    (/\ lastCall.op # "none"
     /\ lastCall.cerr = "nil"
     /\ lastCall.res.net
     /\ lastCall.res.json
     /\ lastCall.res.status = "error"
     /\ lastCall.res.hasError) => lastCall.err # NilErr

\* C10, as stated: UploadTorrent on a readable file returns the id of the first
\* accepted file and no error when the response reports one, and the
\* "no files uploaded" error only when it reports none.
C10_Original ==
    (/\ lastCall.op = "upload-torrent"
     /\ args.readable
     /\ lastCall.cerr = "nil"
     /\ lastCall.res.status = "success") =>
        IF Len(lastCall.res.data.Files) >= 1
        THEN lastCall.err = NilErr /\ lastCall.id = lastCall.res.data.Files[1].ID
        ELSE lastCall.err = << "no files uploaded" >>

\* The response a finished upload call got, when its context was alive.
Answered(op) == lastCall.op = op /\ lastCall.cerr = "nil" /\ lastCall.res.net

C12_FileClosed ==
    /\ torrentFile.closes <= 1
    /\ (args.kind = "torrent" /\ pc # "start") =>
          IF args.readable
          THEN torrentFile = [state |-> "closed", closes |-> 1]
          ELSE torrentFile = NoFile

C12_Witness ==
    /\ lastCall.op = "upload-torrent"
    /\ args.readable
    /\ lastCall.err = << "failed to parse response", "json" >>
    /\ torrentFile = [state |-> "closed", closes |-> 1]
    /\ pc = "exit"

\* C13: when the torrent file cannot be opened, run ends with the error of
\* os.Open, no upload request was sent, no other API operation was called and
\* WaitForDownloadLinks was never entered.
C13_OpenFailsFirst ==
    (args.kind = "torrent" /\ ~args.readable) =>
        /\ uploadSent = 0
        /\ state = "Idle"
        /\ attempts = 0
        /\ ~inQuery
        /\ lastCall.op \in {"none", "upload-torrent"}
        /\ pc \in {"start", "exit"}
        /\ pc = "exit" =>
              /\ runErr = << "failed to upload torrent", "failed to open torrent file", "open" >>
              /\ lastCall.res.net => lastCall.err = << "failed to open torrent file", "open" >>
              /\ printed = <<>>

C13_Witness ==
    /\ args.kind = "torrent"
    /\ ~args.readable
    /\ pc = "exit"
    /\ lastCall.op = "upload-torrent"
    /\ lastCall.res.status = "success"
    /\ uploadSent = 0

\* ------------------------------------------------------ claims: flattenTree
\* The argument of the call, decoded.
Nodes == Unmarshal(pureIn.nodes)
Flattened == pureOp = "flattenTree"
FlattenedWithPath == pureOp = "flattenTreeWithPath"
PathsOf(files) == [i \in 1..Len(files) |-> files[i].Path]
LinksOf(files) == [i \in 1..Len(files) |-> files[i].Link]
\* The path rule as the claims state it.
JoinPath(parent, name) ==
    IF parent # "" /\ name # "" THEN parent \o "/" \o name
    ELSE IF parent # "" THEN parent
    ELSE name
\* The records the claims expect: one per file node, in depth-first order,
\* every path built with JoinPath.
RECURSIVE ExpectedRecords(_, _)
ExpectedRecords(nodes, parent) ==
    IF nodes = <<>> THEN <<>>
    ELSE LET n == Head(nodes) IN
         (IF n.Link # "" THEN
              << [Link |-> n.Link, Path |-> JoinPath(parent, n.Name),
                  Name |-> n.Name, Size |-> n.Size] >>
          ELSE IF n.Entries # <<>> THEN ExpectedRecords(n.Entries, JoinPath(parent, n.Name))
          ELSE <<>>)
         \o ExpectedRecords(Tail(nodes), parent)
MoviesExample == << JDir("movies", << JFile("a.mkv", "l1", BytesPerMB) >>) >>

\* C14: a directory hands to its children parentPath + "/" + name when both
\* are non-empty, else the non-empty one of the two, else "", at every depth:
\* flattening a directory under a path is flattening its entries under that
\* joined path, every named file gets the joined names of the directories
\* above it followed by its own, and directory "movies" holding file "a.mkv"
\* yields the single record with path "movies/a.mkv".
C14_DirectoryPath ==
    /\ (FlattenedWithPath /\ ~IsFile(Nodes[1]) /\ IsDirectory(Nodes[1])) =>
          pureOut = flattenEntries(Nodes[1].Entries,
                                   JoinPath(pureIn.currentPath, Nodes[1].Name))
    /\ Flattened =>
          /\ Len(pureOut) = Len(ExpectedRecords(Nodes, ""))
          /\ \A i \in 1..Len(pureOut) :
                pureOut[i].Name # "" => pureOut[i].Path = ExpectedRecords(Nodes, "")[i].Path
    /\ (Flattened /\ pureIn.nodes = MoviesExample) =>
          pureOut = << [Link |-> "l1", Path |-> "movies/a.mkv",
                        Name |-> "a.mkv", Size |-> BytesPerMB] >>

C14_Witness ==
    /\ Flattened
    /\ pureIn.nodes = << JDir("movies", << JDir("a", << JFile("a.mkv", "l1", BytesPerMB) >>) >>) >>
    /\ PathsOf(pureOut) = << "movies/a/a.mkv" >>

\* C15, as stated: every file node yields one record with its link and size
\* unchanged and the path parentPath + "/" + name when both are non-empty,
\* else the non-empty one of the two: a file with an empty name under a
\* directory gets the directory's path, with no "/" after it.
C15_Original ==
    Flattened => pureOut = ExpectedRecords(Nodes, "")

\* Empty-named directories replaced by their entries, at every depth.
RECURSIVE Splice(_)
Splice(nodes) ==
    IF nodes = <<>> THEN <<>>
    ELSE LET n == Head(nodes) IN
         (IF n.Link = "" /\ n.Entries # <<>> THEN
              IF n.Name = "" THEN Splice(n.Entries)
              ELSE << [n EXCEPT !.Entries = Splice(n.Entries)] >>
          ELSE << n >>)
         \o Splice(Tail(nodes))

\* C16: a directory with an empty name is transparent at every depth: the
\* result is the one for the tree with every such directory replaced by its
\* entries, under the root and under any path; an empty-named directory
\* holding "b.mkv" yields path "b.mkv", and directory "a" holding an
\* empty-named directory holding "f" yields "a/f".
C16_EmptyDirTransparent ==
    /\ Flattened => pureOut = flattenTree(Splice(Nodes))
    /\ FlattenedWithPath =>
          pureOut = flattenEntries(Splice(<< Nodes[1] >>), pureIn.currentPath)
    /\ (Flattened /\ pureIn.nodes = << JDir("", << TrailFile >>) >>) =>
          PathsOf(pureOut) = << "b.mkv" >>
    /\ (Flattened /\ pureIn.nodes = << JDir("a", << JDir("", << CousinFile >>) >>) >>) =>
          PathsOf(pureOut) = << "a/f" >>

C16_Witness ==
    /\ Flattened
    /\ pureIn.nodes = << JDir("movies", << JDir("", << JFile("a.mkv", "l1", BytesPerMB) >>) >>) >>
    /\ PathsOf(pureOut) = << "movies/a.mkv" >>

\* The links of the well-formed file objects (both l and s) of a tree.
RECURSIVE WellFormedLinks(_)
WellFormedLinks(js) ==
    IF js = <<>> THEN {}
    ELSE (IF {"l", "s"} \subseteq Head(js).has THEN { Head(js).l } ELSE {})
         \cup WellFormedLinks(Head(js).e) \cup WellFormedLinks(Tail(js))

\* C17, as stated: an object that is neither a file with link and size nor a
\* directory with an entries key never yields a record, and the well-formed
\* files beside it still yield theirs.
C17_Original ==
    Flattened =>
        /\ \A i \in 1..Len(pureOut) : pureOut[i].Link \in WellFormedLinks(pureIn.nodes)
        /\ \A k \in 1..Len(pureIn.nodes) :
              {"l", "s"} \subseteq pureIn.nodes[k].has =>
                  \E i \in 1..Len(pureOut) : pureOut[i].Link = pureIn.nodes[k].l

OrderExample ==
    << TrailFile,
       JDir("movies", << JFile("a.mkv", "l1", BytesPerMB), JFile("a.mkv", "l1", BytesPerMB),
                         TrailFile >>),
       JDir("c", << CousinFile >>) >>

\* C18: the records come in the depth-first order of the input, nothing
\* sorted, nothing dropped as a duplicate: the result for a list is the
\* result for any front part followed by the result for the rest, at the root
\* and inside a directory; and when every root node is a file the result has
\* one record per node, the i-th with the i-th node's name as path.
C18_OrderPreserving ==
    /\ Flattened =>
          \A k \in 0..Len(Nodes) :
              pureOut = flattenTree(SubSeq(Nodes, 1, k))
                        \o flattenTree(SubSeq(Nodes, k + 1, Len(Nodes)))
    /\ (FlattenedWithPath /\ ~IsFile(Nodes[1]) /\ IsDirectory(Nodes[1])) =>
          LET es == Nodes[1].Entries
              np == newPath(pureIn.currentPath, Nodes[1].Name)
          IN  \A k \in 0..Len(es) :
                  pureOut = flattenEntries(SubSeq(es, 1, k), np)
                            \o flattenEntries(SubSeq(es, k + 1, Len(es)), np)
    /\ (Flattened /\ \A k \in 1..Len(Nodes) : IsFile(Nodes[k])) =>
          /\ Len(pureOut) = Len(Nodes)
          /\ \A i \in 1..Len(Nodes) :
                pureOut[i].Path = Nodes[i].Name /\ pureOut[i].Link = Nodes[i].Link
    /\ (Flattened /\ pureIn.nodes = OrderExample) =>
          LinksOf(pureOut) = << "lb", "l1", "l1", "lb", "lf" >>

C18_Witness ==
    /\ Flattened
    /\ pureIn.nodes = OrderExample
    /\ PathsOf(pureOut) = << "b.mkv", "movies/a.mkv", "movies/a.mkv", "movies/b.mkv", "c/f" >>

\* -------------------------------------------------- claims: the size filter
\* C19: with a threshold of zero or below, the filter of run returns its
\* input: the same entries in the same order, those of size 0 included.
C19_NonPositiveIdentity ==
    (pureOp = "filter" /\ pureIn.minMB <= 0) => pureOut = pureIn.links

C19_Witness ==
    /\ pureOp = "filter"
    /\ pureIn.minMB = 0
    /\ Len(pureIn.links) = 3
    /\ pureIn.links[2].Size = 0
    /\ pureIn.links[3].Size = BytesPerMB
    /\ pureOut = pureIn.links

\* C20, as stated: with a positive threshold every filter of the program
\* keeps exactly the entries of at least minMB * 1,048,576 bytes, an entry of
\* exactly that size included.
C20_Original ==
    (pureOp \in {"filter", "filterLargeFiles"} /\ pureIn.minMB > 0) =>
        pureOut = SelectSeq(pureIn.links, LAMBDA l : l.Size >= pureIn.minMB * 1048576)

\* ------------------------------------------------- claims C21 to C30
UploadFailed ==
    /\ lastCall.op \in {"upload-magnet", "upload-torrent"}
    /\ lastCall.err # NilErr

UploadPrefix ==
    IF lastCall.op = "upload-magnet" THEN "failed to upload magnet"
    ELSE "failed to upload torrent"

\* C21: a failed submission (UploadMagnet or UploadTorrent returned an error)
\* is fatal: WaitForDownloadLinks is never called, no list query and no unlock
\* is made, nothing is printed, and run returns an error that wraps the
\* failure of the submission.
C21_SubmissionFatal ==
    UploadFailed =>
        /\ pc = "exit"
        /\ state = "Idle"
        /\ attempts = 0
        /\ ~inQuery
        /\ links = <<>>
        /\ task = <<>>
        /\ fanOut = <<>>
        /\ unlockRes = <<>>
        /\ printed = <<>>
        /\ runErr = Wrap(UploadPrefix, lastCall.err)
        /\ procExit.code \in {-1, 1}

C21_Witness ==
    /\ UploadFailed
    /\ lastCall.op = "upload-magnet"
    /\ procExit.code = 1

\* errors.Is(err, target) over the chain that %w builds.
ErrorsIs(err, target) == \E i \in 1..Len(err) : err[i] = target
WaitPrefix == "failed to get download links"

\* C22: the error WaitForDownloadLinks returns tells why polling ended:
\* DeadlineExceeded exactly when its own timeout elapsed, Canceled exactly when
\* the parent context was cancelled before that; after run has wrapped it, the
\* two can still be told apart by errors.Is, and from every other failure of
\* run, which carries another prefix and never DeadlineExceeded.
C22_ErrorTellsWhy ==
    /\ state = "TimedOut" =>
          /\ ret.err = DeadlineErr
          /\ ctxErr = "DeadlineExceeded"
          /\ doneAt = args.timeout
    /\ state = "Cancelled" =>
          /\ ret.err = CancelErr
          /\ ctxErr = "Canceled"
          /\ parentErr = "Canceled"
          /\ doneAt <= args.timeout
    /\ (pc = "exit" /\ runErr # NilErr) =>
          /\ (runErr[1] = WaitPrefix) <=> (state \in {"TimedOut", "Cancelled"})
          /\ ErrorsIs(runErr, "DeadlineExceeded") <=> (state = "TimedOut")
          /\ state = "Cancelled" =>
                 (ErrorsIs(runErr, "Canceled") /\ ~ErrorsIs(runErr, "DeadlineExceeded"))
          /\ state = "TimedOut" => ~ErrorsIs(runErr, "Canceled")
          /\ ErrorsIs(runErr, "Canceled") => parentErr = "Canceled"

\* run has wrapped a timeout that a later cancellation of the parent did not
\* turn into a cancellation.
C22_Witness ==
    /\ pc = "exit"
    /\ state = "TimedOut"
    /\ parentErr = "Canceled"
    /\ runErr = << WaitPrefix, "DeadlineExceeded" >>

\* C23: the call runs for min(timeout, time of the parent's cancellation).
\* While it is in Polling the clock never passes the timeout, a cancelled
\* parent means a cancelled context, and from the moment the context ends in
\* Polling no time passes in the call, no list query succeeds, at most the one
\* tick already due is taken, and the call can only end in TimedOut (at the
\* timeout) or Cancelled (before it).
C23_FirstOfTimeoutAndCancel ==
    /\ state = "Polling" => now <= args.timeout
    /\ (state = "Polling" /\ parentErr = "Canceled") => ctxErr # "nil"
    /\ (state = "Polling" /\ now = args.timeout) => ctxErr # "nil"
    /\ (state = "Polling" /\ ctxErr # "nil") =>
          /\ ~ENABLED Advance
          /\ ENABLED (DoneBranch \/ QueryReturn)
    /\ doneIn \in {"entry", "Polling"} =>
          /\ state \in {"Polling", "TimedOut", "Cancelled"}
          /\ now = doneAt
          /\ ~okAfterDone
          /\ ticksAfterDone <= 1
          /\ ctxErr = "DeadlineExceeded" => doneAt = args.timeout
          /\ ctxErr = "Canceled" => doneAt <= args.timeout

\* A cancellation ended a call that had polled and still had time left.
C23_Witness ==
    /\ state = "Cancelled"
    /\ doneIn = "Polling"
    /\ attempts >= 2
    /\ 0 < doneAt
    /\ doneAt < args.timeout
    /\ now = doneAt

\* C24, as stated: unlocking changes nothing of a link but its download URL.
\* File name, source URL and size of every link in and after Resolving are the
\* ones taken from the flattened tree; the download URL is assigned exactly
\* once, with the URL of the unlocker, when the link's unlock succeeded, and is
\* never assigned when the unlock failed or has not finished.
C24_Original ==
    state \in {"Resolving", "Done"} =>
        /\ Len(WaitLinks) = Len(fanOut)
        /\ \A i \in 1..Len(fanOut) :
              /\ WaitLinks[i].Filename = fanOut[i].Filename
              /\ WaitLinks[i].URL = fanOut[i].URL
              /\ WaitLinks[i].Size = fanOut[i].Size
              /\ fanOut[i].DownloadURL = ""
              /\ unlockRes[i].how = "unlocked" =>
                    (urlWrites[i] = 1 /\ WaitLinks[i].DownloadURL = DirectURL(fanOut[i].URL))
              /\ unlockRes[i].how # "unlocked" =>
                    (urlWrites[i] = 0 /\ WaitLinks[i].DownloadURL = "")

\* The last call was a list query that succeeded and flattened to no file.
EmptyListing ==
    /\ lastCall.op = "list"
    /\ lastCall.err = NilErr
    /\ lastCall.links = <<>>

\* C25: a successful list query that flattens to no file (no magnet entry, an
\* empty tree, only empty directories) keeps the call in Polling: it has
\* returned nothing and started no unlock, the next tick sends the query
\* again (and while the context lives the clock can reach that tick), and the
\* call can still end only by deadline or cancellation.  The call is in
\* Resolving on, and only on, a query that listed at least one file.
C25_EmptyKeepsPolling ==
    /\ EmptyListing =>
          /\ state \in {"Polling", "TimedOut", "Cancelled"}
          /\ task = <<>>
          /\ fanOut = <<>>
          /\ unlockRes = <<>>
          /\ state = "Polling" => ret = [links |-> <<>>, err |-> NilErr]
          /\ (state = "Polling" /\ ~inQuery /\ tickPending) => ENABLED TickBranch
          /\ (state = "Polling" /\ ~inQuery /\ ~tickPending /\ ctxErr = "nil") =>
                ENABLED Advance
    /\ (lastCall.op = "list" /\ lastCall.err = NilErr /\ Len(lastCall.links) >= 1) =>
          /\ state = "Resolving"
          /\ fanOut = lastCall.links
          /\ Len(task) = Len(lastCall.links)
    /\ state \in {"Resolving", "Done"} =>
          /\ Len(fanOut) >= 1
          /\ reported = Len(fanOut)

\* A listing of nothing but an empty directory was followed by another query.
C25_Witness ==
    /\ EmptyListing
    /\ lastCall.res.data.Magnets = << [Files |-> NestedTree(0)] >>
    /\ state = "Polling"
    /\ inQuery
    /\ attempts = 3
    /\ failedPolls = 0

\* C26: the returned list is in the order of the flattened files, whatever
\* the order in which the unlocks complete: entry i of the list of a Done call
\* is the i-th file of the listed tree in document order, and this is the
\* order in which the links were handed to the unlocks.
C26_FlattenedOrder ==
    state = "Done" =>
        /\ Len(ret.links) = Len(fanOut)
        /\ \A i \in 1..Len(ret.links) :
              /\ ret.links[i].URL = FileNode(i).Link
              /\ ret.links[i].Filename = FileNode(i).Name
              /\ ret.links[i].URL = fanOut[i].URL

\* Two links, the first of which was unlocked last.
C26_Witness ==
    /\ state = "Done"
    /\ Len(ret.links) = 2
    /\ lastCall.op = "unlock"
    /\ lastCall.err = NilErr
    /\ lastCall.links[1].URL = ret.links[1].URL
    /\ \A i \in 1..2 : unlockRes[i].how = "unlocked"

\* C27: no two unlock goroutines touch the same Link.  The Link instances of
\* the list are pairwise distinct, goroutine i has read and written no Link
\* but the i-th, so the sets of Links of two goroutines are disjoint, and the
\* coordinator has read the links (to return them) only when every goroutine
\* had finished with its own.
C27_NoSharedLink ==
    state \in {"Resolving", "Done"} =>
        /\ Len(refs) = Len(task)
        /\ Len(touched) = Len(task)
        /\ \A i, j \in 1..Len(refs) :
              i # j => (refs[i] # refs[j] /\ touched[i] \cap touched[j] = {})
        /\ \A i \in 1..Len(refs) :
              /\ touched[i] \subseteq { refs[i] }
              /\ task[i] = "done" => touched[i] = { refs[i] }
        /\ state = "Resolving" => ret.links = <<>>
        /\ state = "Done" => \A i \in 1..Len(refs) : task[i] = "done"

\* Two goroutines have run, each on its own Link, and the list was returned.
C27_Witness ==
    /\ state = "Done"
    /\ Len(refs) = 2
    /\ touched[1] = { refs[1] }
    /\ touched[2] = { refs[2] }
    /\ urlWrites = << 1, 1 >>

\* C28: exactly one unlock per flattened file.  In Resolving and after, there
\* is one goroutine per file of the listing, a file whose goroutine has ended
\* had unrestrictLink called once, whether it succeeded or failed, a file
\* whose goroutine still runs had it called not yet, a Done call has called it
\* once for every file, and no list query is in flight or can be sent.
C28_OneUnlockPerFile ==
    state \in {"Resolving", "Done"} =>
        /\ Len(task) = Len(fanOut)
        /\ Len(unlockCalls) = Len(fanOut)
        /\ Len(fanOut) = reported
        /\ \A i \in 1..Len(fanOut) :
              /\ unlockCalls[i] = IF task[i] = "done" THEN 1 ELSE 0
              /\ (unlockRes[i].how = "pending") <=> (task[i] = "running")
              /\ state = "Done" => unlockCalls[i] = 1
        /\ ~inQuery
        /\ ~ENABLED TickBranch
        /\ ~ENABLED QueryReturn
        /\ lastCall.op \in {"list", "unlock"}

\* A Done call of two files: one unlock failed, one succeeded, each called once.
C28_Witness ==
    /\ state = "Done"
    /\ unlockCalls = << 1, 1 >>
    /\ unlockRes[1].how = "failed"
    /\ unlockRes[2].how = "unlocked"
    /\ tickPending

\* C29: under fair scheduling a call of WaitForDownloadLinks with a finite
\* timeout always terminates: once entered, it reaches Done, TimedOut or
\* Cancelled.
C29_Terminates == (state = "Polling") ~> Terminal

\* A call that polled through the longest timeout and then ended.
C29_Witness ==
    /\ state = "TimedOut"
    /\ args.timeout = MaxTimeout
    /\ attempts >= 4
    /\ parentErr = "nil"

\* C30, as stated: when run failed because the -timeout ran out and no signal
\* had come, main logs "operation timed out" and exits with code 1, not
\* "operation failed"; when run failed and the process had been interrupted,
\* main logs "operation cancelled by user" and exits with code 1.
C30_Original ==
    (procExit # NoExit /\ runErr # NilErr) =>
        /\ procExit.code = 1
        /\ (state = "TimedOut" /\ parentErr = "nil") => procExit.msg = "operation timed out"
        /\ parentErr = "Canceled" => procExit.msg = "operation cancelled by user"

\* ------------------------------------------------- claims C31 to C35
\* C31: no list query before the first tick.  The k-th query is sent no
\* earlier than k poll intervals after the call began, so the first one only
\* after a full interval; with a timeout shorter than the interval the call
\* sends no query at all, whatever the service has to list, and ends with
\* DeadlineExceeded unless a cancellation ends it first.
C31_NoQueryBeforeFirstTick ==
    /\ state # "Idle" => attempts * TickInterval <= now
    /\ (state # "Idle" /\ now < TickInterval) =>
          (attempts = 0 /\ ~inQuery /\ lastCall.op # "list")
    /\ (state # "Idle" /\ args.timeout < TickInterval) =>
          /\ attempts = 0
          /\ ~inQuery
          /\ lastCall.op # "list"
          /\ state \in {"Polling", "TimedOut", "Cancelled"}
          /\ state = "TimedOut" => (ret.err = DeadlineErr /\ ret.links = <<>>)
          /\ (state = "Cancelled") => doneAt <= args.timeout
          /\ (state = "Polling" /\ now = args.timeout) => ENABLED DoneBranch

\* A call with a timeout of half an interval has timed out without a query.
C31_Witness ==
    /\ state = "TimedOut"
    /\ args.timeout = 1
    /\ now = 1
    /\ attempts = 0
    /\ parentErr = "nil"
    /\ pc = "exit"

\* A tick was taken in the select although the context had already ended.
TickAfterDone == doneIn \in {"entry", "Polling"} /\ ticksAfterDone >= 1

\* C32: when a tick and ctx.Done() are ready together, the outcome does not
\* depend on the branch the select takes.  A call whose context ended in
\* Polling ends with no list and the error of the context, whether or not the
\* tick branch was taken after that; when it was, the query it made failed on
\* the ended context, no unlock was started, no second tick can be taken and
\* the Done branch is the next one.
C32_SelectChoiceIrrelevant ==
    /\ (doneIn \in {"entry", "Polling"} /\ Terminal) =>
          ret = [links |-> <<>>, err |-> CtxError(ctxErr)]
    /\ TickAfterDone =>
          /\ state \in {"Polling", "TimedOut", "Cancelled"}
          /\ ticksAfterDone = 1
          /\ task = <<>>
          /\ fanOut = <<>>
          /\ ret.links = <<>>
          /\ ~okAfterDone
          /\ ~inQuery =>
                /\ lastCall.op = "list"
                /\ lastCall.links = <<>>
                /\ ErrorsIs(lastCall.err, ctxErr)
          /\ (state = "Polling" /\ ~inQuery) => (ENABLED DoneBranch /\ ~ENABLED TickBranch)
          /\ (state = "Polling" /\ inQuery) => (ENABLED QueryReturn /\ ~ENABLED Advance)

\* The deadline fell on a tick, the select took the tick first, and the call
\* timed out all the same.
C32_Witness ==
    /\ state = "TimedOut"
    /\ TickAfterDone
    /\ doneIn = "Polling"
    /\ doneAt = 2 * TickInterval
    /\ args.timeout = 2 * TickInterval
    /\ attempts = 2
    /\ ret.err = DeadlineErr

\* The links of a list that have a download URL, in the order of the list.
RECURSIVE Resolved(_)
Resolved(ls) ==
    IF ls = <<>> THEN <<>>
    ELSE IF Head(ls).DownloadURL = "" THEN Resolved(Tail(ls))
    ELSE << Head(ls) >> \o Resolved(Tail(ls))

\* The download URLs and the file names a printer's output shows, in order.
EmittedURLs(out) ==
    IF out.format = "plain" THEN out.lines
    ELSE IF out.format = "html" THEN [i \in 1..Len(out.rows) |-> out.rows[i].href]
    ELSE [i \in 1..Len(out.items) |-> out.items[i].download_url]
EmittedNames(out) ==
    IF out.format = "html" THEN [i \in 1..Len(out.rows) |-> out.rows[i].text]
    ELSE [i \in 1..Len(out.items) |-> out.items[i].filename]
AllFailed(ls) == \A i \in 1..Len(ls) : ls[i].DownloadURL = ""
Shows(out, ls) ==
    /\ EmittedURLs(out) = [i \in 1..Len(Resolved(ls)) |-> Resolved(ls)[i].DownloadURL]
    /\ \A i \in 1..Len(EmittedURLs(out)) : EmittedURLs(out)[i] # ""
    /\ out.format # "plain" =>
          EmittedNames(out) = [i \in 1..Len(Resolved(ls)) |-> Resolved(ls)[i].Filename]
    /\ out.format = "json" => out.value = "array"
    /\ AllFailed(ls) => EmittedURLs(out) = <<>>

\* C33: the output never shows a link without a download URL.  Each of the
\* three printers shows exactly the links of its input that have one, in the
\* order of the input, with their own names; when no link has one, the plain
\* output has no line and the JSON output is an empty array (not null); and
\* run, which prints what the size filter kept with the printer the flags
\* choose, returns no error, also when every unlock failed.
C33_OnlyResolvedShown ==
    /\ pureOp = "plain" => (pureOut.format = "plain" /\ Shows(pureOut, pureIn.links))
    /\ pureOp = "html" => (pureOut.format = "html" /\ Shows(pureOut, pureIn.links))
    /\ pureOp = "json" => (pureOut.format = "json" /\ Shows(pureOut, pureIn.links))
    /\ pureOp = "run" =>
          /\ pureOut.err = NilErr
          /\ pureOut.out.format = IF pureIn.flags.html THEN "html"
                                  ELSE IF pureIn.flags.json THEN "json" ELSE "plain"
          /\ Shows(pureOut.out, FilterLinks(pureIn.links, pureIn.minMB))
          /\ AllFailed(pureIn.links) => EmittedURLs(pureOut.out) = <<>>

\* run with -json on three links none of which was unlocked: an empty array.
C33_Witness ==
    /\ pureOp = "run"
    /\ pureIn.flags.json
    /\ Len(pureIn.links) = 3
    /\ AllFailed(pureIn.links)
    /\ pureOut.out.value = "array"
    /\ pureOut.out.items = <<>>
    /\ pureOut.err = NilErr

\* a is b with some entries left out: same entries, same order, none changed.
RECURSIVE IsSubSeq(_, _)
IsSubSeq(a, b) ==
    IF a = <<>> THEN TRUE
    ELSE IF b = <<>> THEN FALSE
    ELSE IF Head(a) = Head(b) THEN IsSubSeq(Tail(a), Tail(b))
    ELSE IsSubSeq(a, Tail(b))

\* What resolution handed to run: the link of the direct unlock, or the list
\* WaitForDownloadLinks returned.
Resolution == IF args.kind = "link" THEN lastCall.links ELSE ret.links
RunSucceeded == pc = "exit" /\ runErr = NilErr
BigEnough(l) == args.minMB <= 0 \/ l.Size >= args.minMB * BytesPerMB

\* C34: run filters the result of whichever input kind produced one, the
\* single link of a direct URL included, and only when resolution is over
\* (the call is Done, or the unlock has answered).  What is left is the
\* resolved list without the entries below the threshold: the same records in
\* the same order, none added, doubled or changed; so under the default 5 MB a
\* direct link of 1 MB that was unlocked is dropped and nothing is printed.
C34_FilterAfterResolution ==
    /\ pc = "filter" =>
          /\ args.kind # "link" => (state = "Done" /\ WaitGroupZero)
          /\ args.kind = "link" => (lastCall.op = "unlock" /\ lastCall.err = NilErr)
          /\ links = Resolution
          /\ printed = <<>>
    /\ RunSucceeded =>
          /\ args.kind # "link" => state = "Done"
          /\ IsSubSeq(links, Resolution)
          /\ \A i \in 1..Len(links) : BigEnough(links[i])
          /\ Len(links) = Cardinality({ i \in 1..Len(Resolution) : BigEnough(Resolution[i]) })
          /\ Len(printed) <= Len(links)
          /\ (args.kind = "link" /\ args.minMB = DefaultMinMB
                /\ Resolution[1].Size < DefaultMinMB * BytesPerMB) =>
                (links = <<>> /\ printed = <<>>)

\* A direct link of 1 MB was unlocked and, under the default threshold, dropped.
C34_Witness ==
    /\ RunSucceeded
    /\ args.kind = "link"
    /\ args.minMB = DefaultMinMB
    /\ lastCall.links[1].DownloadURL = DirectURL(InputURL)
    /\ lastCall.links[1].Size = BytesPerMB
    /\ links = <<>>
    /\ printed = <<>>
    /\ procExit.code = 0

\* The links of the nodes met when no node with a link is entered, in
\* depth-first order; every link of a forest; and the links that lie
\* beneath a node with a link.
RECURSIVE VisibleLinks(_)
VisibleLinks(nodes) ==
    IF nodes = <<>> THEN <<>>
    ELSE (IF Head(nodes).Link # "" THEN << Head(nodes).Link >>
          ELSE VisibleLinks(Head(nodes).Entries))
         \o VisibleLinks(Tail(nodes))
RECURSIVE AllLinks(_)
AllLinks(nodes) ==
    IF nodes = <<>> THEN {}
    ELSE (IF Head(nodes).Link # "" THEN { Head(nodes).Link } ELSE {})
         \cup AllLinks(Head(nodes).Entries) \cup AllLinks(Tail(nodes))
RECURSIVE BeneathFiles(_)
BeneathFiles(nodes) ==
    IF nodes = <<>> THEN {}
    ELSE (IF Head(nodes).Link # "" THEN AllLinks(Head(nodes).Entries)
          ELSE BeneathFiles(Head(nodes).Entries))
         \cup BeneathFiles(Tail(nodes))
Mixed(n) == n.Link # "" /\ n.Entries # <<>>

\* C35: a node with both a link and children is a file to flattenTree.  On
\* its own it yields exactly one record, its own; in a tree, at any depth, the
\* records are those of the nodes with a link that lie beneath no other node
\* with a link, one each and in order, and no record carries a link that
\* occurs only beneath such a node.
C35_LinkWinsOverChildren ==
    /\ (FlattenedWithPath /\ Mixed(Nodes[1])) =>
          /\ Len(pureOut) = 1
          /\ pureOut[1].Link = Nodes[1].Link
          /\ pureOut[1].Name = Nodes[1].Name
          /\ pureOut[1].Size = Nodes[1].Size
    /\ Flattened =>
          /\ LinksOf(pureOut) = VisibleLinks(Nodes)
          /\ \A i \in 1..Len(pureOut) :
                pureOut[i].Link \in BeneathFiles(Nodes) =>
                    \E j \in 1..Len(VisibleLinks(Nodes)) : VisibleLinks(Nodes)[j] = pureOut[i].Link

\* Node "k" (link l4, one child with link l5) two directories down: one
\* record, for k itself.
C35_Witness ==
    /\ Flattened
    /\ "l5" \in BeneathFiles(Nodes)
    /\ LinksOf(pureOut) = << "l4" >>
    /\ PathsOf(pureOut) = << "movies/a/k" >>

====
